---- MODULE Spec2Model ----
(***************************************************************************)
(* Clocked circuits of the FSM and block-RAM notebooks (src/fsm/fsm.py,    *)
(* src/ram/block_ram_party.py).  One circuit is instantiated per run       *)
(* (each notebook cell calls initialize() and builds one design); a step   *)
(* of the model is one rising clock edge: the stimulus drives the input    *)
(* signals, every seq_logic block reads the values from before the edge,   *)
(* all .next values are committed together and the comb_logic blocks       *)
(* settle.                                                                 *)
(***************************************************************************)
EXTENDS Integers, Sequences, FiniteSets, TLC

VARIABLES
    design,         \* which chunk is instantiated
    stim,           \* "tb": the notebook's test bench drives the inputs; "free": any input
    tb_i,           \* number of test bench clock pulses done
    width,          \* len(cnt_o) of the counters
    cnt,            \* counter state variable
    cnt_o,          \* counter output bus
    rst,            \* counter_en_rst reset input
    en,             \* enable input (counter_en_rst, ram)
    edges,          \* history: rising edges seen by counter
    debounce_time,  \* debouncer parameter
    button_i,       \* raw button input of the stand-alone debouncer
    debouncers,     \* sequence of debouncer instances: [debounce_cnt, prev_button, button_o]
    inputs,         \* classic_fsm inputs_i
    fsm_state,      \* classic_fsm state variable
    reset_cnt,      \* classic_fsm start-up reset counter
    prev_inputs,    \* classic_fsm inputs of the previous clock
    outputs_o,      \* classic_fsm outputs
    wr,             \* ram write control input
    addr,           \* ram address bus
    data_i,         \* ram data input bus
    data_o,         \* ram data output bus
    mem,            \* ram array of words
    wr_addr,        \* dualport_ram address bus for writes
    rd_addr,        \* dualport_ram address bus for reads
    written,        \* history: <<address, value>> of the last write to each address
    hist            \* history: per-edge records of the last edges (design specific)

vars == <<design, stim, tb_i, width, cnt, cnt_o, rst, en, edges, debounce_time,
          button_i, debouncers, inputs, fsm_state, reset_cnt, prev_inputs,
          outputs_o, wr, addr, data_i, data_o, mem, wr_addr, rd_addr, written, hist>>

cntVars  == <<width, cnt, cnt_o, rst, edges>>
dbncVars == <<debounce_time, button_i, debouncers>>
fsmVars  == <<inputs, fsm_state, reset_cnt, prev_inputs, outputs_o>>
ramVars  == <<wr, addr, data_i, data_o, mem, wr_addr, rd_addr, written>>

----------------------------------------------------------------------------
(* Bounds of the model. *)

MaxWidth == 3          \* free stimulus: counters of 1..MaxWidth bits
MaxEdges == 20         \* edges counted by the history of counter
MaxDebounceTime == 2   \* free stimulus: debounce_time in 1..MaxDebounceTime
MaxAddr == 1           \* free stimulus: ram addresses 0..MaxAddr
MaxData == 1           \* free stimulus: ram data 0..MaxData
MaxK == 3              \* forward/backward runs of up to MaxK steps are recorded

(* Program constants. *)

CntWidth == 3          \* cnt = Bus(3, name='cnt')
TbDebounceTime == 3    \* debouncer(clk, button_i, button_o, 3)
ResetCntWidth == 2     \* reset_cnt = Bus(2)
AddrWidth == 8         \* addr = Bus(8, name='addr')
DataWidth == 8         \* data_i = Bus(8, name='data_i')

----------------------------------------------------------------------------
(* Signal helpers. *)

Pow2(n) == 2 ^ n

\* A modbv bus of w bits keeps the low w bits of what is assigned to it.
Bus(v, w) == v % Pow2(w)

Bit(x, i) == (x \div Pow2(i)) % 2

\* int(ceil(log2(n))) for n >= 1
CeilLog2(n) == CHOOSE w \in 0..n : Pow2(w) >= n /\ \A u \in 0..(w - 1) : Pow2(u) < n

Push(h, x, n) == IF Len(h) < n THEN Append(h, x) ELSE Append(Tail(h), x)

Last(h) == h[Len(h)]

\* length of the run of equal entries that ends the sequence h
RunLen(h) ==
    IF h = <<>> THEN 0
    ELSE Cardinality({k \in 1..Len(h) : \A j \in k..Len(h) : h[j] = Last(h)})

----------------------------------------------------------------------------
(* counter *)

counter_next_state_logic_nowrap(c, w) == c + 1

counter_next_state_logic(c, w) == Bus(c + 1, w)

counter_output_logic(c) == c

Counter ==
    /\ design = "counter"
    /\ edges < MaxEdges
    /\ cnt' = counter_next_state_logic(cnt, width)
    /\ cnt_o' = counter_output_logic(cnt')
    /\ edges' = edges + 1
    /\ UNCHANGED <<design, stim, tb_i, width, rst, en, hist>>
    /\ UNCHANGED dbncVars
    /\ UNCHANGED fsmVars
    /\ UNCHANGED ramVars

----------------------------------------------------------------------------
(* counter_en_rst and cntr_tb *)

counter_en_rst_next_state_logic_en_first(c, r, e, w) ==
    IF e = 1 THEN Bus(c + 1, w)
    ELSE IF r = 1 THEN 0
    ELSE c

counter_en_rst_next_state_logic(c, r, e, w) ==
    IF r = 1 THEN 0
    ELSE IF e = 1 THEN Bus(c + 1, w)
    ELSE c

\* <<rst, en>> at each clock pulse of cntr_tb
cntr_tb ==
    <<  <<0, 1>>, <<0, 1>>, <<0, 1>>, <<0, 1>>,
        <<0, 0>>, <<0, 0>>,
        <<0, 1>>, <<0, 1>>,
        <<1, 1>>,
        <<0, 1>>, <<0, 1>>, <<0, 1>>, <<0, 1>> >>

Stimulus(tb, all) ==
    IF stim = "tb"
    THEN IF tb_i < Len(tb) THEN {tb[tb_i + 1]} ELSE {}
    ELSE all

TbAdvance == tb_i' = IF stim = "tb" THEN tb_i + 1 ELSE tb_i

CounterEnRst ==
    /\ design = "counter_en_rst"
    /\ \E s \in Stimulus(cntr_tb, {0, 1} \X {0, 1}) :
          /\ rst' = s[1]
          /\ en' = s[2]
    /\ cnt' = counter_en_rst_next_state_logic(cnt, rst', en', width)
    /\ cnt_o' = counter_output_logic(cnt')
    /\ TbAdvance
    /\ UNCHANGED <<design, stim, width, edges, hist>>
    /\ UNCHANGED dbncVars
    /\ UNCHANGED fsmVars
    /\ UNCHANGED ramVars

----------------------------------------------------------------------------
(* debouncer and debounce_tb *)

debouncer_init == [debounce_cnt |-> 0, prev_button |-> 0, button_o |-> 0]

\* next_state_logic reloading the counter with one count too few
debouncer_next_state_logic_short(d, b, T) ==
    [ debounce_cnt |->
          IF b = d.prev_button
          THEN IF d.debounce_cnt # 0
               THEN Bus(d.debounce_cnt - 1, CeilLog2(T + 1))
               ELSE d.debounce_cnt
          ELSE Bus(T - 1, CeilLog2(T + 1)),
      prev_button |-> b ]

\* next_state_logic that never stores the current button value
debouncer_next_state_logic_no_prev(d, b, T) ==
    [ debounce_cnt |->
          IF b = d.prev_button
          THEN IF d.debounce_cnt # 0
               THEN Bus(d.debounce_cnt - 1, CeilLog2(T + 1))
               ELSE d.debounce_cnt
          ELSE Bus(T, CeilLog2(T + 1)),
      prev_button |-> d.prev_button ]

\* output_logic passing the stored button value through at once
debouncer_output_logic_no_wait(d) == d.prev_button

debouncer_next_state_logic(d, b, T) ==
    [ debounce_cnt |->
          IF b = d.prev_button
          THEN IF d.debounce_cnt # 0
               THEN Bus(d.debounce_cnt - 1, CeilLog2(T + 1))
               ELSE d.debounce_cnt
          ELSE Bus(T, CeilLog2(T + 1)),
      prev_button |-> b ]

debouncer_output_logic(d) ==
    IF d.debounce_cnt = 0 THEN d.prev_button ELSE d.button_o

\* both seq_logic blocks of one debouncer at one rising edge
debouncer(d, b, T) ==
    [ debounce_cnt |-> debouncer_next_state_logic(d, b, T).debounce_cnt,
      prev_button  |-> debouncer_next_state_logic(d, b, T).prev_button,
      button_o     |-> debouncer_output_logic(d) ]

\* button_i at each clock pulse of debounce_tb
debounce_tb == <<1, 1, 1, 1, 0, 0, 1, 1, 0, 0, 0, 0, 0>>

Debouncer ==
    /\ design = "debouncer"
    /\ \E b \in Stimulus(debounce_tb, {0, 1}) : button_i' = b
    /\ debouncers' = <<debouncer(debouncers[1], button_i', debounce_time)>>
    /\ hist' = Push(hist, button_i', debounce_time + 2)
    /\ TbAdvance
    /\ UNCHANGED <<design, stim, en, debounce_time>>
    /\ UNCHANGED cntVars
    /\ UNCHANGED fsmVars
    /\ UNCHANGED ramVars

----------------------------------------------------------------------------
(* classic_fsm: the three versions share next_state_logic and output_logic *)
(* and differ in the signal that selects the transition.                   *)

nop == 0   \* 0b00
fwd == 1   \* 0b01
bck == 2   \* 0b10

\* next_state_logic with the D -> C transition going to the wrong state
classic_fsm_next_state_logic_typo(st, rc, sel) ==
    IF rc < Pow2(ResetCntWidth) - 1
    THEN [reset_cnt |-> Bus(rc + 1, ResetCntWidth), fsm_state |-> "A"]
    ELSE [reset_cnt |-> rc,
          fsm_state |->
              IF st = "A" THEN
                  IF Bit(sel, 0) = 1 THEN "B" ELSE IF Bit(sel, 1) = 1 THEN "D" ELSE st
              ELSE IF st = "B" THEN
                  IF Bit(sel, 0) = 1 THEN "C" ELSE IF Bit(sel, 1) = 1 THEN "A" ELSE st
              ELSE IF st = "C" THEN
                  IF Bit(sel, 0) = 1 THEN "D" ELSE IF Bit(sel, 1) = 1 THEN "B" ELSE st
              ELSE IF st = "D" THEN
                  IF Bit(sel, 0) = 1 THEN "A" ELSE IF Bit(sel, 1) = 1 THEN "B" ELSE st
              ELSE "A"]

\* next_state_logic with the backward input tested first
classic_fsm_next_state_logic_bck_first(st, rc, sel) ==
    IF rc < Pow2(ResetCntWidth) - 1
    THEN [reset_cnt |-> Bus(rc + 1, ResetCntWidth), fsm_state |-> "A"]
    ELSE [reset_cnt |-> rc,
          fsm_state |->
              IF st = "A" THEN
                  IF Bit(sel, 1) = 1 THEN "D" ELSE IF Bit(sel, 0) = 1 THEN "B" ELSE st
              ELSE IF st = "B" THEN
                  IF Bit(sel, 1) = 1 THEN "A" ELSE IF Bit(sel, 0) = 1 THEN "C" ELSE st
              ELSE IF st = "C" THEN
                  IF Bit(sel, 1) = 1 THEN "B" ELSE IF Bit(sel, 0) = 1 THEN "D" ELSE st
              ELSE IF st = "D" THEN
                  IF Bit(sel, 1) = 1 THEN "C" ELSE IF Bit(sel, 0) = 1 THEN "A" ELSE st
              ELSE "A"]

\* sel is inputs_i in the first version and input_chgs in the other two
classic_fsm_next_state_logic(st, rc, sel) ==
    IF rc < Pow2(ResetCntWidth) - 1
    THEN [reset_cnt |-> Bus(rc + 1, ResetCntWidth), fsm_state |-> "A"]
    ELSE [reset_cnt |-> rc,
          fsm_state |->
              IF st = "A" THEN
                  IF Bit(sel, 0) = 1 THEN "B" ELSE IF Bit(sel, 1) = 1 THEN "D" ELSE st
              ELSE IF st = "B" THEN
                  IF Bit(sel, 0) = 1 THEN "C" ELSE IF Bit(sel, 1) = 1 THEN "A" ELSE st
              ELSE IF st = "C" THEN
                  IF Bit(sel, 0) = 1 THEN "D" ELSE IF Bit(sel, 1) = 1 THEN "B" ELSE st
              ELSE IF st = "D" THEN
                  IF Bit(sel, 0) = 1 THEN "A" ELSE IF Bit(sel, 1) = 1 THEN "C" ELSE st
              ELSE "A"]

\* output_logic without the branch of state D
classic_fsm_output_logic_no_D(st) ==
    IF st = "A" THEN 1
    ELSE IF st = "B" THEN 2
    ELSE IF st = "C" THEN 4
    ELSE 15

classic_fsm_output_logic(st) ==
    IF st = "A" THEN 1         \* 0b0001
    ELSE IF st = "B" THEN 2    \* 0b0010
    ELSE IF st = "C" THEN 4    \* 0b0100
    ELSE IF st = "D" THEN 8    \* 0b1000
    ELSE 15                    \* 0b1111

\* detect_chg comparing the inputs with themselves a clock late: plain inequality
detect_chg_any_change(in, prev) ==
    IF Bit(in, 0) # Bit(prev, 0) THEN 1 + 2 * (IF Bit(in, 1) # Bit(prev, 1) THEN 1 ELSE 0)
    ELSE 2 * (IF Bit(in, 1) # Bit(prev, 1) THEN 1 ELSE 0)

\* in & ~prev on the two-bit buses
detect_chg(in, prev) ==
    Bit(in, 0) * (1 - Bit(prev, 0)) + 2 * (Bit(in, 1) * (1 - Bit(prev, 1)))

\* inputs at each clock pulse of fsm_tb (first version)
fsm_tb == <<nop, nop, nop, nop, fwd, fwd, fwd, bck, bck, bck>>

\* inputs at each clock pulse of fsm_tb (edge-detecting version)
fsm_tb_chg ==
    <<nop, nop, nop, nop, fwd, fwd, fwd, bck, bck, bck,
      fwd, nop, fwd, nop, fwd, nop, bck, nop, bck, nop, bck, nop>>

\* first version
ClassicFsm ==
    /\ design = "classic_fsm"
    /\ \E i \in Stimulus(fsm_tb, 0..3) : inputs' = i
    /\ LET n == classic_fsm_next_state_logic(fsm_state, reset_cnt, inputs')
       IN  /\ fsm_state' = n.fsm_state
           /\ reset_cnt' = n.reset_cnt
    /\ outputs_o' = classic_fsm_output_logic(fsm_state')
    /\ hist' = Push(hist, [st |-> fsm_state, rc |-> reset_cnt, in |-> inputs'], 2 * MaxK)
    /\ TbAdvance
    /\ UNCHANGED <<design, stim, en, prev_inputs>>
    /\ UNCHANGED cntVars
    /\ UNCHANGED dbncVars
    /\ UNCHANGED ramVars

\* edge-detecting version
ClassicFsmChg ==
    /\ design = "classic_fsm_chg"
    /\ \E i \in Stimulus(fsm_tb_chg, 0..3) : inputs' = i
    /\ LET input_chgs == detect_chg(inputs', prev_inputs)
           n == classic_fsm_next_state_logic(fsm_state, reset_cnt, input_chgs)
       IN  /\ fsm_state' = n.fsm_state
           /\ reset_cnt' = n.reset_cnt
    /\ prev_inputs' = inputs'
    /\ outputs_o' = classic_fsm_output_logic(fsm_state')
    /\ hist' = Push(hist, inputs', 2)
    /\ TbAdvance
    /\ UNCHANGED <<design, stim, en>>
    /\ UNCHANGED cntVars
    /\ UNCHANGED dbncVars
    /\ UNCHANGED ramVars

\* the debounced inputs bus: bit i is button_o of debouncer i
dbnc_inputs(ds) == ds[1].button_o + 2 * ds[2].button_o

\* debounced version
ClassicFsmDbnc ==
    /\ design = "classic_fsm_dbnc"
    /\ \E i \in 0..3 : inputs' = i
    /\ LET input_chgs == detect_chg(dbnc_inputs(debouncers), prev_inputs)
           n == classic_fsm_next_state_logic(fsm_state, reset_cnt, input_chgs)
       IN  /\ fsm_state' = n.fsm_state
           /\ reset_cnt' = n.reset_cnt
    /\ prev_inputs' = dbnc_inputs(debouncers)
    /\ debouncers' = << debouncer(debouncers[1], Bit(inputs', 0), debounce_time),
                        debouncer(debouncers[2], Bit(inputs', 1), debounce_time) >>
    /\ outputs_o' = classic_fsm_output_logic(fsm_state')
    /\ hist' = Push(hist, inputs', debounce_time + 3)
    /\ UNCHANGED <<design, stim, tb_i, en, debounce_time, button_i>>
    /\ UNCHANGED cntVars
    /\ UNCHANGED ramVars

----------------------------------------------------------------------------
(* ram (with and without en_i) and ram_test_bench *)

\* logic writing one word too high
ram_logic_wrong_word(m, dout, e, w, a, d) ==
    IF e = 1
    THEN IF w = 1
         THEN [mem |-> [m EXCEPT ![Bus(a + 1, AddrWidth)] = Bus(d, DataWidth)], data_o |-> dout]
         ELSE [mem |-> m, data_o |-> m[a]]
    ELSE [mem |-> m, data_o |-> dout]

ram_logic(m, dout, e, w, a, d) ==
    IF e = 1
    THEN IF w = 1
         THEN [mem |-> [m EXCEPT ![a] = Bus(d, DataWidth)], data_o |-> dout]
         ELSE [mem |-> m, data_o |-> m[a]]
    ELSE [mem |-> m, data_o |-> dout]

\* logic without the else: the addressed word is read out on write edges too
ram_noen_logic_read_always(m, dout, w, a, d) ==
    IF w = 1
    THEN [mem |-> [m EXCEPT ![a] = Bus(d, DataWidth)], data_o |-> m[a]]
    ELSE [mem |-> m, data_o |-> m[a]]

\* the version without en_i
ram_noen_logic(m, dout, w, a, d) ==
    IF w = 1
    THEN [mem |-> [m EXCEPT ![a] = Bus(d, DataWidth)], data_o |-> dout]
    ELSE [mem |-> m, data_o |-> m[a]]

\* <<en, wr, addr, data_i>> at each clock pulse of ram_test_bench
ram_test_bench ==
    [k \in 1..20 |-> IF k <= 10 THEN <<1, 1, k - 1, 3 * (k - 1) + 1>>
                                ELSE <<1, 0, k - 11, 3 * 9 + 1>>]

RamInputs == {0, 1} \X {0, 1} \X (0..MaxAddr) \X (0..MaxData)

Record(w, a, d) ==
    IF w = 1 THEN {p \in written : p[1] # a} \cup {<<a, d>>} ELSE written

Ram ==
    /\ design = "ram"
    /\ \E s \in Stimulus(ram_test_bench, RamInputs) :
          /\ en' = s[1]
          /\ wr' = s[2]
          /\ addr' = s[3]
          /\ data_i' = s[4]
    /\ LET n == ram_logic(mem, data_o, en', wr', addr', data_i')
       IN  /\ mem' = n.mem
           /\ data_o' = n.data_o
    /\ written' = IF en' = 1 THEN Record(wr', addr', data_i') ELSE written
    /\ TbAdvance
    /\ UNCHANGED <<design, stim, hist>>
    /\ UNCHANGED cntVars
    /\ UNCHANGED dbncVars
    /\ UNCHANGED fsmVars
    /\ UNCHANGED <<wr_addr, rd_addr>>

RamNoEn ==
    /\ design = "ram_noen"
    /\ \E s \in RamInputs :
          /\ wr' = s[2]
          /\ addr' = s[3]
          /\ data_i' = s[4]
    /\ LET n == ram_noen_logic(mem, data_o, wr', addr', data_i')
       IN  /\ mem' = n.mem
           /\ data_o' = n.data_o
    /\ written' = Record(wr', addr', data_i')
    /\ UNCHANGED <<design, stim, tb_i, en, hist>>
    /\ UNCHANGED cntVars
    /\ UNCHANGED dbncVars
    /\ UNCHANGED fsmVars
    /\ UNCHANGED <<wr_addr, rd_addr>>

----------------------------------------------------------------------------
(* simpler_ram *)

\* logic reading the word back after the write has landed
simpler_ram_logic_write_through(m, dout, w, a, d) ==
    [ mem    |-> IF w = 1 THEN [m EXCEPT ![a] = Bus(d, DataWidth)] ELSE m,
      data_o |-> IF w = 1 THEN Bus(d, DataWidth) ELSE m[a] ]

\* mem[addr_i.val] on the right-hand side is the word as it is before the edge
simpler_ram_logic(m, dout, w, a, d) ==
    [ mem    |-> IF w = 1 THEN [m EXCEPT ![a] = Bus(d, DataWidth)] ELSE m,
      data_o |-> m[a] ]

SimplerRam ==
    /\ design = "simpler_ram"
    /\ \E s \in RamInputs :
          /\ wr' = s[2]
          /\ addr' = s[3]
          /\ data_i' = s[4]
    /\ LET n == simpler_ram_logic(mem, data_o, wr', addr', data_i')
       IN  /\ mem' = n.mem
           /\ data_o' = n.data_o
    /\ UNCHANGED <<design, stim, tb_i, en, wr_addr, rd_addr, written, hist>>
    /\ UNCHANGED cntVars
    /\ UNCHANGED dbncVars
    /\ UNCHANGED fsmVars

----------------------------------------------------------------------------
(* dualport_ram and its ram_test_bench *)

\* logic reading the word back after the write has landed
dualport_ram_logic_write_through(m, dout, w, wa, ra, d) ==
    [ mem    |-> IF w = 1 THEN [m EXCEPT ![wa] = Bus(d, DataWidth)] ELSE m,
      data_o |-> IF w = 1 /\ ra = wa THEN Bus(d, DataWidth) ELSE m[ra] ]

dualport_ram_logic(m, dout, w, wa, ra, d) ==
    [ mem    |-> IF w = 1 THEN [m EXCEPT ![wa] = Bus(d, DataWidth)] ELSE m,
      data_o |-> m[ra] ]

\* <<wr, wr_addr, rd_addr, data_i>> at each clock pulse of the dual-port
\* ram_test_bench; rd_addr = i - 3 is taken on the 8-bit address bus
dualport_test_bench ==
    [k \in 1..10 |-> <<1, k - 1, Bus((k - 1) - 3, AddrWidth), 3 * (k - 1) + 1>>]

DualportInputs == {0, 1} \X (0..MaxAddr) \X (0..MaxAddr) \X (0..MaxData)

DualportRam ==
    /\ design = "dualport_ram"
    /\ \E s \in Stimulus(dualport_test_bench, DualportInputs) :
          /\ wr' = s[1]
          /\ wr_addr' = s[2]
          /\ rd_addr' = s[3]
          /\ data_i' = s[4]
    /\ LET n == dualport_ram_logic(mem, data_o, wr', wr_addr', rd_addr', data_i')
       IN  /\ mem' = n.mem
           /\ data_o' = n.data_o
    /\ TbAdvance
    /\ UNCHANGED <<design, stim, en, addr, written, hist>>
    /\ UNCHANGED cntVars
    /\ UNCHANGED dbncVars
    /\ UNCHANGED fsmVars

----------------------------------------------------------------------------

Designs == {"counter", "counter_en_rst", "debouncer",
            "classic_fsm", "classic_fsm_chg", "classic_fsm_dbnc",
            "ram", "ram_noen", "simpler_ram", "dualport_ram"}

HasTb == {"counter_en_rst", "debouncer", "classic_fsm", "classic_fsm_chg", "ram",
          "dualport_ram"}

Init ==
    /\ design \in Designs
    /\ stim \in {"tb", "free"}
    /\ stim = "tb" => design \in HasTb
    /\ tb_i = 0
    /\ width \in IF design \in {"counter", "counter_en_rst"} /\ stim = "free"
                  THEN 1..MaxWidth
                  ELSE {CntWidth}
    /\ cnt = 0
    /\ cnt_o = 0
    /\ rst = 1     \* rst = Wire(1, name='rst')
    /\ en = IF design = "counter_en_rst" THEN 1 ELSE 0
    /\ edges = 0
    /\ debounce_time \in IF design \in {"debouncer", "classic_fsm_dbnc"} /\ stim = "free"
                          THEN 1..MaxDebounceTime
                          ELSE {TbDebounceTime}
    /\ button_i = 0
    /\ debouncers = IF design = "classic_fsm_dbnc"
                    THEN <<debouncer_init, debouncer_init>>
                    ELSE <<debouncer_init>>
    /\ inputs = 0
    /\ fsm_state = "A"
    /\ reset_cnt = 0
    /\ prev_inputs = 0
    /\ outputs_o = 1
    /\ wr = 0
    /\ addr = 0
    /\ data_i = 0
    /\ data_o = 0
    /\ mem = [a \in 0..(Pow2(AddrWidth) - 1) |-> 0]
    /\ wr_addr = 0
    /\ rd_addr = 0
    /\ written = {}
    /\ hist = <<>>

Next ==
    \/ Counter
    \/ CounterEnRst
    \/ Debouncer
    \/ ClassicFsm
    \/ ClassicFsmChg
    \/ ClassicFsmDbnc
    \/ Ram
    \/ RamNoEn
    \/ SimplerRam
    \/ DualportRam

Spec == Init /\ [][Next]_vars

----------------------------------------------------------------------------
(* Properties of the counters. *)

\* C8: counter starts at 0, adds 1 on every rising edge and wraps from
\* 2^n - 1 to 0 (n = len(cnt_o)), i.e. after k edges it holds k mod 2^n,
\* and cnt_o always equals the state variable.
C8_CounterWraps ==
    design = "counter" =>
        /\ cnt = edges % Pow2(width)
        /\ cnt_o = cnt
        /\ cnt \in 0..(Pow2(width) - 1)

C8_Witness ==
    /\ design = "counter"
    /\ width = CntWidth
    /\ edges = Pow2(width) + 1
    /\ cnt = 1

\* C9 as stated: reset high clears the count, reset low and enable high
\* makes it count + 1, both low leave it; cntr_tb sees 4, 4, 6, 0, 4.
C9_AsStated ==
    [][design = "counter_en_rst" =>
          /\ rst' = 1 => cnt' = 0
          /\ (rst' = 0 /\ en' = 1) => cnt' = cnt + 1
          /\ (rst' = 0 /\ en' = 0) => cnt' = cnt
          /\ stim = "tb" =>
                /\ tb_i' = 4 => cnt' = 4
                /\ tb_i' \in {5, 6} => cnt' = 4
                /\ tb_i' = 8 => cnt' = 6
                /\ tb_i' = 9 => cnt' = 0
                /\ tb_i' = 13 => cnt' = 4]_vars

\* C9 amended: as C9, with the enabled step being count + 1 modulo 2^n
\* (the count wraps from 2^n - 1 to 0).
C9_CounterEnRst ==
    [][design = "counter_en_rst" =>
          /\ rst' = 1 => cnt' = 0
          /\ (rst' = 0 /\ en' = 1) =>
                cnt' = IF cnt = Pow2(width) - 1 THEN 0 ELSE cnt + 1
          /\ (rst' = 0 /\ en' = 0) => cnt' = cnt
          /\ cnt_o' = cnt'
          /\ stim = "tb" =>
                /\ tb_i' = 4 => cnt' = 4
                /\ tb_i' \in {5, 6} => cnt' = 4
                /\ tb_i' = 8 => cnt' = 6
                /\ tb_i' = 9 => cnt' = 0
                /\ tb_i' = 13 => cnt' = 4]_vars

C9_Witness ==
    /\ design = "counter_en_rst"
    /\ stim = "free"
    /\ width = CntWidth
    /\ rst = 0
    /\ en = 1
    /\ cnt = 0
    /\ cnt_o = 0

----------------------------------------------------------------------------
(* Properties of the debouncer.  hist holds the button_i samples of the    *)
(* last debounce_time + 2 rising edges, oldest first.                      *)

\* the n entries of h that precede its last k entries all equal v
AllBefore(h, k, n, v) ==
    /\ Len(h) >= k + n
    /\ \A j \in (Len(h) - k - n + 1)..(Len(h) - k) : h[j] = v

\* C1: button_o changes to v on a rising edge only if button_i was sampled
\* as v on at least debounce_time consecutive rising edges immediately
\* before (the run of equal samples in fact is longer than debounce_time,
\* so a run of at most debounce_time samples never changes button_o).
C1_NoChangeOnShortRun ==
    [][(design = "debouncer" /\ debouncers'[1].button_o # debouncers[1].button_o) =>
          /\ AllBefore(hist, 0, debounce_time, debouncers'[1].button_o)
          /\ RunLen(hist) > debounce_time]_vars

C1_Witness ==
    /\ design = "debouncer"
    /\ stim = "free"
    /\ debounce_time = MaxDebounceTime
    /\ debouncers[1].button_o = 0
    /\ Len(hist) = debounce_time + 2
    /\ hist[1] = 0
    /\ \A j \in 2..(debounce_time + 1) : hist[j] = 1
    /\ hist[debounce_time + 2] = 0

\* C2: when button_i was sampled as v on debounce_time + 1 consecutive
\* rising edges, button_o is v after the next rising edge whatever was
\* sampled on it, and stays v while the samples stay v.
C2_StableInputReachesOutput ==
    design = "debouncer" =>
        \A v \in {0, 1} :
            AllBefore(hist, 1, debounce_time + 1, v) => debouncers[1].button_o = v

C2_Witness ==
    /\ design = "debouncer"
    /\ stim = "free"
    /\ debounce_time = MaxDebounceTime
    /\ AllBefore(hist, 1, debounce_time + 1, 1)
    /\ Last(hist) = 0
    /\ debouncers[1].button_o = 1

----------------------------------------------------------------------------
(* Properties of classic_fsm. *)

Ring == <<"A", "B", "C", "D">>

Idx(st) == CHOOSE i \in 1..4 : Ring[i] = st

RingFwd(st) == Ring[(Idx(st) % 4) + 1]

RingBck(st) == Ring[((Idx(st) + 2) % 4) + 1]

ResetDone == reset_cnt = Pow2(ResetCntWidth) - 1

FsmDesigns == {"classic_fsm", "classic_fsm_chg", "classic_fsm_dbnc"}

\* C3: first version, after the start-up reset: a rising edge moves the
\* state one step forward on the ring when inputs_i[0] is 1, one step
\* backward when inputs_i[0] is 0 and inputs_i[1] is 1, and leaves it
\* when both are 0.
C3_RingTransitions ==
    [][(design = "classic_fsm" /\ ResetDone) =>
          fsm_state' = IF Bit(inputs', 0) = 1 THEN RingFwd(fsm_state)
                       ELSE IF Bit(inputs', 1) = 1 THEN RingBck(fsm_state)
                       ELSE fsm_state]_vars

C3_Witness ==
    /\ design = "classic_fsm"
    /\ stim = "free"
    /\ hist # <<>>
    /\ Last(hist).rc = Pow2(ResetCntWidth) - 1
    /\ Last(hist).st = "A"
    /\ Last(hist).in = 3
    /\ fsm_state = "B"

\* C4: in all three versions outputs_o is one-hot and identifies the state
\* (A=0b0001, B=0b0010, C=0b0100, D=0b1000); the state is always one of the
\* four, so neither 0b1111 nor the unknown-state branch is reached.
C4_OneHotOutputs ==
    design \in FsmDesigns =>
        /\ fsm_state \in {"A", "B", "C", "D"}
        /\ outputs_o = Pow2(Idx(fsm_state) - 1)
        /\ outputs_o # 15

C4_Witness ==
    /\ design = "classic_fsm_dbnc"
    /\ fsm_state = "D"
    /\ outputs_o = 8

\* the k entries of h that precede its last n entries all have input x
InputsBefore(h, n, k, x) ==
    /\ Len(h) >= n + k
    /\ \A j \in (Len(h) - n - k + 1)..(Len(h) - n) : h[j].in = x

\* state after each clock pulse of fsm_tb, first version
fsm_tb_states == <<"A", "A", "A", "A", "B", "C", "D", "C", "B", "A">>

\* C5: first version, after the start-up reset: k forward inputs followed
\* by k backward inputs bring the FSM back to the state it started in; in
\* fsm_tb the states are A,B,C,D,C,B,A.
C5_ForwardThenBackward ==
    design = "classic_fsm" =>
        /\ \A k \in 1..MaxK :
              ( /\ InputsBefore(hist, k, k, fwd)
                /\ InputsBefore(hist, 0, k, bck)
                /\ hist[Len(hist) - 2 * k + 1].rc = Pow2(ResetCntWidth) - 1 )
              => fsm_state = hist[Len(hist) - 2 * k + 1].st
        /\ (stim = "tb" /\ tb_i >= 1) => fsm_state = fsm_tb_states[tb_i]

C5_Witness ==
    /\ design = "classic_fsm"
    /\ stim = "free"
    /\ InputsBefore(hist, MaxK, MaxK, fwd)
    /\ InputsBefore(hist, 0, MaxK, bck)
    /\ hist[1].rc = Pow2(ResetCntWidth) - 1
    /\ hist[1].st = "C"
    /\ fsm_state = "C"

\* state after each clock pulse of fsm_tb, edge-detecting version
fsm_tb_chg_states ==
    <<"A", "A", "A", "A", "B", "B", "B", "A", "A", "A",
      "B", "B", "C", "C", "D", "D", "C", "C", "B", "B", "A", "A">>

\* C6: edge-detecting version, after the start-up reset: the state changes
\* on a rising edge exactly when some input bit is 1 on that edge and was 0
\* on the previous edge, so a held input gives one transition; in fsm_tb
\* the first six inputs give A->B->A and the alternating ones
\* A->B->C->D->C->B->A.
C6_EdgeDetect ==
    [][design = "classic_fsm_chg" =>
          /\ ResetDone =>
                /\ (fsm_state' # fsm_state) <=>
                      (\E i \in 0..1 : Bit(inputs', i) = 1 /\ Bit(Last(hist), i) = 0)
                /\ inputs' = Last(hist) => fsm_state' = fsm_state
          /\ stim = "tb" => fsm_state' = fsm_tb_chg_states[tb_i']]_vars

C6_Witness ==
    /\ design = "classic_fsm_chg"
    /\ stim = "tb"
    /\ tb_i = 17
    /\ fsm_state = "C"
    /\ inputs = bck

\* the k entries of h that precede its last n entries all have bit i at 1
BitHeldBefore(h, n, k, i) ==
    /\ Len(h) >= n + k
    /\ \A j \in (Len(h) - n - k + 1)..(Len(h) - n) : Bit(h[j], i) = 1

\* C7: debounced version: the state changes only on a rising edge of a
\* debounced input (dbnc_inputs & ~prev_inputs # 0); raw pulses of at most
\* debounce_time edges never change it (a change needs a raw input sampled
\* at 1 on more than debounce_time consecutive edges); a press that has
\* settled gives one transition: the rising edge of the debounced input is
\* taken once, and inputs that stay as they are give no further one.
C7_DebouncedFsm ==
    [][design = "classic_fsm_dbnc" =>
          /\ ResetDone =>
                ((fsm_state' # fsm_state) <=>
                    (\E i \in 0..1 : /\ Bit(dbnc_inputs(debouncers), i) = 1
                                     /\ Bit(prev_inputs, i) = 0))
          /\ fsm_state' # fsm_state =>
                \E i \in 0..1 : BitHeldBefore(hist, 1, debounce_time + 1, i)
          /\ (Len(hist) = debounce_time + 3 /\ RunLen(hist) = debounce_time + 3)
                => fsm_state' = fsm_state]_vars

C7_Witness ==
    /\ design = "classic_fsm_dbnc"
    /\ debounce_time = MaxDebounceTime
    /\ Len(hist) = debounce_time + 3
    /\ \A j \in 1..Len(hist) : hist[j] = IF j <= debounce_time + 1 THEN fwd ELSE nop
    /\ dbnc_inputs(debouncers) = 1
    /\ prev_inputs = 1
    /\ fsm_state = "B"

----------------------------------------------------------------------------
(* Properties of ram. *)

RamDesigns == {"ram", "ram_noen"}

\* the edge reads the RAM: wr low, and en high where the design has en_i
ReadEdge == wr' = 0 /\ (design = "ram" => en' = 1)

EnabledEdge == design = "ram" => en' = 1

\* C11: both versions: an (enabled) rising edge with wr_i high changes only
\* the word at addr_i, to data_i, and leaves data_o and all other words; one
\* with wr_i low changes only data_o, to the word at addr_i, and leaves the
\* memory; in the version with en_i an edge with en_i low changes neither.
C11_RamFrame ==
    [][(design \in RamDesigns) =>
          /\ (EnabledEdge /\ wr' = 1) =>
                /\ \A a \in DOMAIN mem :
                      mem'[a] = IF a = addr' THEN data_i' ELSE mem[a]
                /\ data_o' = data_o
          /\ (EnabledEdge /\ wr' = 0) =>
                /\ mem' = mem
                /\ data_o' = mem[addr']
          /\ ~EnabledEdge =>
                /\ mem' = mem
                /\ data_o' = data_o]_vars

C11_Witness ==
    /\ design = "ram"
    /\ stim = "free"
    /\ en = 0
    /\ wr = 1
    /\ addr = 0
    /\ data_i = MaxData
    /\ mem[0] = 0
    /\ mem[1] = MaxData
    /\ data_o = MaxData

----------------------------------------------------------------------------
(* Properties of simpler_ram and dualport_ram. *)

\* C12: simpler_ram: on every rising edge, with wr_i high or low, data_o
\* takes the contents the word at addr_i had before the edge; on a write
\* edge that is the old word, not the data_i being written.
C12_SimplerRamReadsOld ==
    [][design = "simpler_ram" =>
          /\ data_o' = mem[addr']
          /\ \A a \in DOMAIN mem :
                mem'[a] = IF wr' = 1 /\ a = addr' THEN data_i' ELSE mem[a]]_vars

C12_Witness ==
    /\ design = "simpler_ram"
    /\ wr = 1
    /\ addr = 0
    /\ data_i = 0
    /\ mem[0] = 0
    /\ data_o = MaxData

\* C13: dualport_ram: on one rising edge data_i is written to wr_addr_i
\* (when wr_i is high) and data_o is loaded from rd_addr_i, for any pair of
\* addresses; the write changes only the word at wr_addr_i, and with
\* rd_addr_i = wr_addr_i on a write edge data_o gets the word as it was
\* before the write.
C13_DualportSameEdge ==
    [][design = "dualport_ram" =>
          /\ data_o' = mem[rd_addr']
          /\ \A a \in DOMAIN mem :
                mem'[a] = IF wr' = 1 /\ a = wr_addr' THEN data_i' ELSE mem[a]]_vars

C13_Witness ==
    /\ design = "dualport_ram"
    /\ stim = "free"
    /\ wr = 1
    /\ wr_addr = 0
    /\ rd_addr = 0
    /\ data_i = 0
    /\ mem[0] = 0
    /\ mem[1] = MaxData
    /\ data_o = MaxData

====
